---- MODULE Spec2Model ----
(***************************************************************************)
(* WindowsControl: the power-action request pipeline of main.go and the    *)
(* lifecycle of the process that serves it.                                *)
(*                                                                         *)
(* One HTTP connection is served by one handler goroutine.  A request is   *)
(* routed by the mux to shutdownHandler / restartHandler /                 *)
(* restartFirmwareHandler, which call handlePowerAction.  The steps of     *)
(* handlePowerAction are actions of this module: the method gate, the      *)
(* platform gate, parseDelay, the construction of the argument list,       *)
(* cmd.Run() (spawn, then exit) and the response.                          *)
(*                                                                         *)
(* The process is main, runHTTPServer with the goroutine that waits for    *)
(* the cancellation of its context, and, under the Windows service         *)
(* manager, windowsService.Execute.  Their statements are the other        *)
(* actions of this module.                                                 *)
(*                                                                         *)
(* Text is modelled as TLA+ strings, built by concatenation.  Go's int and *)
(* time.Duration are 64-bit two's complement words, modelled as 4 limbs of *)
(* 16 bits (least significant first), so that strconv.Itoa, the JSON       *)
(* number decoder and Duration arithmetic behave as they do on amd64.      *)
(***************************************************************************)
EXTENDS Integers, Sequences, FiniteSets, TLC

(***************************************************************************)
(* Bounds of the model.                                                    *)
(***************************************************************************)
\* Every delay from 0 to MaxSmallDelay seconds is sent, besides the delays
\* listed with the request bodies.
MaxSmallDelay == 2

(***************************************************************************)
(* 64-bit words.  The operators go through the four limbs one by one, as   *)
(* the hardware goes through the bits; m and a are small numbers.          *)
(***************************************************************************)
\* One limb has 16 bits.
Radix == 65536
\* Go's int on amd64 and time.Duration (int64) have 64 bits.
Limbs == 4
\* The sign bit of the most significant limb.
SignBit == 32768

Zero64 == <<0, 0, 0, 0>>

\* The word of a small non-negative number n < 2^31.
FromSmall(n) == <<n % Radix, n \div Radix, 0, 0>>

\* The value of a word below 2^31.
ToSmall(u) == u[1] + Radix * u[2]

IsZero64(x) == x = Zero64

\* d < 0 for an int64.
IsNeg64(x) == x[Limbs] >= SignBit

\* x * m + a; carry is what leaves the 64 bits.
MulAdd64(x, m, a) ==
    LET t1 == x[1] * m + a
        t2 == x[2] * m + (t1 \div Radix)
        t3 == x[3] * m + (t2 \div Radix)
        t4 == x[4] * m + (t3 \div Radix)
    IN  [w |-> <<t1 % Radix, t2 % Radix, t3 % Radix, t4 % Radix>>,
         carry |-> t4 \div Radix]

\* int64 multiplication by a small constant, wrapping modulo 2^64.
MulSmall64(x, m) == MulAdd64(x, m, 0).w

\* x + y + c, wrapping modulo 2^64.
AddCarry64(x, y, c) ==
    LET t1 == x[1] + y[1] + c
        t2 == x[2] + y[2] + (t1 \div Radix)
        t3 == x[3] + y[3] + (t2 \div Radix)
        t4 == x[4] + y[4] + (t3 \div Radix)
    IN  <<t1 % Radix, t2 % Radix, t3 % Radix, t4 % Radix>>

Add64(x, y) == AddCarry64(x, y, 0)

Not64(x) == [k \in 1..Limbs |-> (Radix - 1) - x[k]]

\* Two's complement negation, -x.
Neg64(x) == AddCarry64(Not64(x), Zero64, 1)

Sub64(x, y) == AddCarry64(x, Not64(y), 1)

\* x < y for uint64: the most significant limb that differs decides.
LessU64(x, y) ==
    \E k \in 1..Limbs :
        /\ x[k] < y[k]
        /\ \A j \in (k + 1)..Limbs : x[j] = y[j]

\* x < y for int64.
Less64(x, y) ==
    IF IsNeg64(x) # IsNeg64(y) THEN IsNeg64(x) ELSE LessU64(x, y)

\* uint64 long division by a small m <= 2^15: quotient and remainder.
DivMod64(x, m) ==
    LET t4 == x[4]
        t3 == (t4 % m) * Radix + x[3]
        t2 == (t3 % m) * Radix + x[2]
        t1 == (t2 % m) * Radix + x[1]
    IN  [q |-> <<t1 \div m, t2 \div m, t3 \div m, t4 \div m>>, r |-> t1 % m]

DivSmall64(x, m) == DivMod64(x, m).q

ModSmall64(x, m) == DivMod64(x, m).r

(***************************************************************************)
(* Decimal text.                                                           *)
(***************************************************************************)
DigitChar == <<"0", "1", "2", "3", "4", "5", "6", "7", "8", "9">>

\* The concatenation of the strings ss[lo..hi].
RECURSIVE Join(_, _, _)
Join(ss, lo, hi) ==
    IF lo > hi THEN ""
    ELSE IF lo = hi THEN ss[lo]
    ELSE Join(ss, lo, (lo + hi) \div 2) \o Join(ss, ((lo + hi) \div 2) + 1, hi)

\* The four decimal digits of n < 10000, most significant first.
Digits4(n) ==
    <<n \div 1000, (n \div 100) % 10, (n \div 10) % 10, n % 10>>

\* The twenty decimal digits of a uint64, most significant first.
DecimalDigits(u) ==
    LET q1 == DivSmall64(u, 10000)
        q2 == DivSmall64(q1, 10000)
        q3 == DivSmall64(q2, 10000)
        q4 == DivSmall64(q3, 10000)
    IN  Digits4(ModSmall64(q4, 10000)) \o Digits4(ModSmall64(q3, 10000))
            \o Digits4(ModSmall64(q2, 10000)) \o Digits4(ModSmall64(q1, 10000))
            \o Digits4(ModSmall64(u, 10000))

\* strconv.formatBits, base 10: the digits from the first non-zero one, and
\* "0" for zero.
FormatDigits(ds) ==
    LET n     == Len(ds)
        nz    == {k \in 1..n : ds[k] # 0}
        first == IF nz = {} THEN n ELSE CHOOSE k \in nz : \A j \in nz : k <= j
    IN  Join([k \in 1..n |-> DigitChar[ds[k] + 1]], first, n)

FormatUint(u) == FormatDigits(DecimalDigits(u))

\* strconv.Itoa(i) = FormatInt(int64(i), 10).
Itoa(i) ==
    IF IsNeg64(i) THEN "-" \o FormatUint(Neg64(i)) ELSE FormatUint(i)

(***************************************************************************)
(* Request bodies.  A body is r.Body == nil, or bytes.  The bytes are      *)
(* described by what encoding/json's scanner sees in them: nothing, only   *)
(* white space, something that is not JSON, a JSON text cut short, or one  *)
(* JSON value, which further bytes may follow.                             *)
(***************************************************************************)
\* A JSON number literal: sign, integer digits, and whether a fraction or
\* an exponent follows them.
NumTok(neg, digits, frac) == [neg |-> neg, digits |-> digits, frac |-> frac]

NoTok == NumTok(FALSE, <<>>, FALSE)

JNull == [t |-> "null", num |-> NoTok, members |-> <<>>]
JBool == [t |-> "bool", num |-> NoTok, members |-> <<>>]
JString == [t |-> "string", num |-> NoTok, members |-> <<>>]
JArray == [t |-> "array", num |-> NoTok, members |-> <<>>]
JNumber(neg, digits, frac) ==
    [t |-> "number", num |-> NumTok(neg, digits, frac), members |-> <<>>]
JObject(members) == [t |-> "object", num |-> NoTok, members |-> members]

Member(key, val) == [key |-> key, val |-> val]

NilBody == [kind |-> "nil", form |-> "none", value |-> JNull, trailing |-> FALSE]
BytesBody(form, value) ==
    [kind |-> "bytes", form |-> form, value |-> value, trailing |-> FALSE]
\* One JSON value followed by bytes that are not JSON, as in {"delaySeconds": 30}xyz.
TrailingBody(value) ==
    [kind |-> "bytes", form |-> "value", value |-> value, trailing |-> TRUE]

\* The text of a number literal, as the decoder quotes it in its errors.
DigitsText(ds) == Join([k \in 1..Len(ds) |-> DigitChar[ds[k] + 1]], 1, Len(ds))

TokText(tok) ==
    (IF tok.neg THEN "-" ELSE "") \o DigitsText(tok.digits)
        \o (IF tok.frac THEN ".5" ELSE "")

\* strconv.ParseUint(s, 10, 64): Horner's rule, n = n * 10 + digit; a carry
\* out of the 64 bits is the range error.
RECURSIVE ParseUintFrom(_, _, _)
ParseUintFrom(ds, k, acc) ==
    IF k > Len(ds) THEN [ok |-> TRUE, n |-> acc]
    ELSE LET t == MulAdd64(acc, 10, ds[k])
         IN  IF t.carry # 0 THEN [ok |-> FALSE, n |-> Zero64]
             ELSE ParseUintFrom(ds, k + 1, t.w)

\* 2^63, the cutoff of strconv.ParseInt for 64 bits.
Cutoff64 == <<0, 0, 0, SignBit>>

\* strconv.ParseInt(s, 10, 64) on a literal; a fraction or an exponent is
\* its syntax error.
ParseInt(tok) ==
    LET un == ParseUintFrom(tok.digits, 1, Zero64)
    IN  IF tok.frac \/ tok.digits = <<>> \/ ~un.ok THEN [ok |-> FALSE, n |-> Zero64]
        ELSE IF ~tok.neg /\ ~LessU64(un.n, Cutoff64) THEN [ok |-> FALSE, n |-> Zero64]
        ELSE IF tok.neg /\ LessU64(Cutoff64, un.n) THEN [ok |-> FALSE, n |-> Zero64]
        ELSE [ok |-> TRUE, n |-> IF tok.neg THEN Neg64(un.n) ELSE un.n]

\* encoding/json matches an object key to the field tagged `delaySeconds`
\* exactly or under case folding.
FieldKeys == {"delaySeconds", "DELAYSECONDS"}

\* UnmarshalTypeError.Value for a JSON value.
ValueDesc(v) ==
    IF v.t = "number" THEN "number " \o TokText(v.num) ELSE v.t

UnmarshalTypeError(v, goType) ==
    "json: cannot unmarshal " \o ValueDesc(v) \o " into Go value of type " \o goType

\* d.literalStore / d.value for the int field DelaySeconds: null leaves the
\* field alone, an integer literal in range sets it, anything else saves an
\* UnmarshalTypeError and leaves the field alone.
StoreInt(cur, v) ==
    IF v.t = "null" THEN [val |-> cur, err |-> ""]
    ELSE IF v.t = "number" /\ ParseInt(v.num).ok
         THEN [val |-> ParseInt(v.num).n, err |-> ""]
    ELSE [val |-> cur, err |-> UnmarshalTypeError(v, "int")]

\* d.object: the members in order; unknown keys are skipped, the first
\* saved error is kept, decoding goes on.
RECURSIVE DecodeMembers(_, _, _)
DecodeMembers(ms, cur, err) ==
    IF ms = <<>> THEN [DelaySeconds |-> cur, err |-> err]
    ELSE LET m == Head(ms)
             r == StoreInt(cur, m.val)
         IN  IF m.key \in FieldKeys
             THEN DecodeMembers(Tail(ms), r.val, IF err = "" THEN r.err ELSE err)
             ELSE DecodeMembers(Tail(ms), cur, err)

\* json.NewDecoder(r.Body).Decode(&payload), payload being
\* struct{ DelaySeconds int `json:"delaySeconds"` }; eof tells io.EOF from
\* the other errors (errors.Is(err, io.EOF)).  Decode reads the first JSON
\* value of the stream and stops: what follows it (b.trailing) is not read.
Decode(b) ==
    IF b.form \in {"empty", "blank"}
    THEN [DelaySeconds |-> Zero64, err |-> "EOF", eof |-> TRUE]
    ELSE IF b.form = "garbage"
    THEN [DelaySeconds |-> Zero64, eof |-> FALSE,
          err |-> "invalid character 's' looking for beginning of value"]
    ELSE IF b.form = "truncated"
    THEN [DelaySeconds |-> Zero64, err |-> "unexpected EOF", eof |-> FALSE]
    ELSE IF b.value.t = "null"
    THEN [DelaySeconds |-> Zero64, err |-> "", eof |-> FALSE]
    ELSE IF b.value.t = "object"
    THEN LET r == DecodeMembers(b.value.members, Zero64, "")
         IN  [DelaySeconds |-> r.DelaySeconds, err |-> r.err, eof |-> FALSE]
    ELSE [DelaySeconds |-> Zero64, eof |-> FALSE,
          err |-> UnmarshalTypeError(b.value, "struct { DelaySeconds int }")]

\* parseDelay with a negative delay clamped to zero instead of rejected.
parseDelayClamped(b) ==
    IF b.kind = "nil" THEN [delay |-> Zero64, err |-> ""]
    ELSE LET d == Decode(b)
         IN  IF d.err # ""
             THEN IF d.eof THEN [delay |-> Zero64, err |-> ""]
                  ELSE [delay |-> Zero64, err |-> "invalid request body: " \o d.err]
             ELSE IF IsNeg64(d.DelaySeconds)
             THEN [delay |-> Zero64, err |-> ""]
             ELSE [delay |-> d.DelaySeconds, err |-> ""]

\* parseDelay without the io.EOF exemption: an empty body is a decode error.
parseDelayRequiresBody(b) ==
    IF b.kind = "nil" THEN [delay |-> Zero64, err |-> ""]
    ELSE LET d == Decode(b)
         IN  IF d.err # ""
             THEN [delay |-> Zero64, err |-> "invalid request body: " \o d.err]
             ELSE IF IsNeg64(d.DelaySeconds)
             THEN [delay |-> Zero64, err |-> "delaySeconds must be zero or positive"]
             ELSE [delay |-> d.DelaySeconds, err |-> ""]

\* parseDelay(r): <<delay, error text>>; the empty text is the nil error.
parseDelay(b) ==
    IF b.kind = "nil" THEN [delay |-> Zero64, err |-> ""]
    ELSE LET d == Decode(b)
         IN  IF d.err # ""
             THEN IF d.eof THEN [delay |-> Zero64, err |-> ""]
                  ELSE [delay |-> Zero64, err |-> "invalid request body: " \o d.err]
             ELSE IF IsNeg64(d.DelaySeconds)
             THEN [delay |-> Zero64, err |-> "delaySeconds must be zero or positive"]
             ELSE [delay |-> d.DelaySeconds, err |-> ""]

(***************************************************************************)
(* time.Duration: int64 nanoseconds.                                       *)
(***************************************************************************)
\* d * 1000 * 1000 * 1000 in int64, each product wrapping modulo 2^64.
MulSecond(d) == MulSmall64(MulSmall64(MulSmall64(d, 1000), 1000), 1000)

\* time.Second.
Second == MulSecond(FromSmall(1))

\* time.Duration(delaySeconds) * time.Second.
DurationOfSeconds(delaySeconds) == MulSecond(delaySeconds)

\* -1 << 63 and 1<<63 - 1.
minDuration == Cutoff64
maxDuration == Not64(Cutoff64)

\* u / Second and u % Second for uint64 u, by three divisions by 1000.
DivSecond(u) == DivSmall64(DivSmall64(DivSmall64(u, 1000), 1000), 1000)

ModSecond(u) ==
    ModSmall64(u, 1000)
        + 1000 * ModSmall64(DivSmall64(u, 1000), 1000)
        + 1000000 * ModSmall64(DivSmall64(DivSmall64(u, 1000), 1000), 1000)

\* d.Round(time.Second): round half away from zero, saturating.
RoundSecond(d) ==
    LET neg == IsNeg64(d)
        \* r := d % m, negated when d < 0
        r   == ModSecond(IF neg THEN Neg64(d) ELSE d)
        R   == FromSmall(r)
        lessThanHalf == r + r < 1000000000
    IN  IF neg
        THEN IF lessThanHalf THEN Add64(d, R)
             ELSE LET d1 == Add64(Sub64(d, Second), R)
                  IN  IF Less64(d1, d) THEN d1 ELSE minDuration
        ELSE IF lessThanHalf THEN Sub64(d, R)
             ELSE LET d1 == Sub64(Add64(d, Second), R)
                  IN  IF Less64(d, d1) THEN d1 ELSE maxDuration

\* time.fmtFrac: the low prec digits of v as a fraction, trailing zeros and
\* an all-zero fraction omitted.
fmtFrac(v, prec) ==
    LET ds   == DecimalDigits(FromSmall(v))
        n    == Len(ds)
        nz   == {k \in (n - prec + 1)..n : ds[k] # 0}
        last == CHOOSE k \in nz : \A j \in nz : j <= k
    IN  IF nz = {} THEN ""
        ELSE "." \o Join([k \in 1..n |-> DigitChar[ds[k] + 1]], n - prec + 1, last)

\* Duration.String().
DurationString(d) ==
    LET neg  == IsNeg64(d)
        u    == IF neg THEN Neg64(d) ELSE d
        sign == IF neg THEN "-" ELSE ""
    IN  IF LessU64(u, Second)
        THEN LET v == ToSmall(u)
             IN  IF v = 0 THEN "0s"
                 ELSE IF v < 1000
                 THEN sign \o FormatUint(u) \o "ns"
                 ELSE IF v < 1000000
                 THEN sign \o FormatUint(DivSmall64(u, 1000)) \o fmtFrac(v % 1000, 3) \o "us"
                 ELSE sign \o FormatUint(DivSmall64(DivSmall64(u, 1000), 1000)) \o fmtFrac(v % 1000000, 6) \o "ms"
        ELSE LET secs  == DivSecond(u)
                 mins  == DivSmall64(secs, 60)
                 hours == DivSmall64(mins, 60)
                 s     == FormatUint(FromSmall(ModSmall64(secs, 60)))
                              \o fmtFrac(ModSecond(u), 9) \o "s"
                 m     == FormatUint(FromSmall(ModSmall64(mins, 60))) \o "m"
                 h     == FormatUint(hours) \o "h"
             IN  sign \o (IF IsZero64(mins) THEN s
                          ELSE IF IsZero64(hours) THEN m \o s
                          ELSE h \o m \o s)

(***************************************************************************)
(* Requests.                                                               *)
(***************************************************************************)
\* http.MethodPost.
MethodPost == "POST"

Methods == {"GET", "POST", "DELETE"}

\* The patterns registered on the mux by runHTTPServer.
ActionPaths == {"/shutdown", "/restart", "/restart-bios"}
Paths == {"/"} \cup ActionPaths

\* runtime.GOOS of the build that is running.
Platforms == {"windows", "linux", "darwin"}

\* The literal of a small number n < 10000: no leading zeros.
SmallDigits(n) ==
    LET ds    == Digits4(n)
        nz    == {k \in 1..4 : ds[k] # 0}
        first == IF nz = {} THEN 4 ELSE CHOOSE k \in nz : \A j \in nz : k <= j
    IN  SubSeq(ds, first, 4)

\* Number literals sent as delaySeconds: 30, 59, 60, 90, 3600, the largest delay
\* whose Duration fits int64, the one after it, the largest int, the one
\* after it.
Digits30 == <<3, 0>>
Digits59 == <<5, 9>>
Digits60 == <<6, 0>>
Digits90 == <<9, 0>>
Digits3600 == <<3, 6, 0, 0>>
DigitsMaxDurationSeconds == <<9, 2, 2, 3, 3, 7, 2, 0, 3, 6>>
DigitsPastDuration == <<9, 2, 2, 3, 3, 7, 2, 0, 3, 7>>
DigitsMaxInt == <<9, 2, 2, 3, 3, 7, 2, 0, 3, 6, 8, 5, 4, 7, 7, 5, 8, 0, 7>>
DigitsPastInt == <<9, 2, 2, 3, 3, 7, 2, 0, 3, 6, 8, 5, 4, 7, 7, 5, 8, 0, 8>>

DelayBody(v) == BytesBody("value", JObject(<<Member("delaySeconds", v)>>))

\* {"delaySeconds": 0}
ZeroBody == DelayBody(JNumber(FALSE, <<0>>, FALSE))
\* no bytes at all (http.NoBody, Content-Length: 0)
EmptyBody == BytesBody("empty", JNull)
\* {}
EmptyObjectBody == BytesBody("value", JObject(<<>>))

ValidBodies ==
    {NilBody, EmptyBody, BytesBody("blank", JNull), EmptyObjectBody, ZeroBody,
     BytesBody("value", JNull),
     DelayBody(JNull),
     DelayBody(JNumber(TRUE, <<0>>, FALSE)),
     BytesBody("value", JObject(<<Member("note", JString)>>)),
     BytesBody("value", JObject(<<Member("DELAYSECONDS", JNumber(FALSE, Digits30, FALSE))>>))}
        \cup {DelayBody(JNumber(FALSE, ds, FALSE)) :
                ds \in {Digits30, Digits59, Digits60, Digits90, Digits3600,
                        DigitsMaxDurationSeconds, DigitsPastDuration, DigitsMaxInt}}
        \cup {DelayBody(JNumber(FALSE, SmallDigits(n), FALSE)) : n \in 0..MaxSmallDelay}

NegativeBodies ==
    {DelayBody(JNumber(TRUE, ds, FALSE)) : ds \in {<<1>>, <<5>>, DigitsPastInt}}
        \cup {BytesBody("value",
                 JObject(<<Member("delaySeconds", JNumber(FALSE, Digits30, FALSE)),
                           Member("delaySeconds", JNumber(TRUE, <<5>>, FALSE))>>))}

MalformedBodies ==
    {BytesBody("garbage", JNull), BytesBody("truncated", JNull),
     BytesBody("value", JArray), BytesBody("value", JString),
     BytesBody("value", JNumber(FALSE, <<5>>, FALSE)),
     DelayBody(JString), DelayBody(JBool), DelayBody(JArray),
     DelayBody(JNumber(FALSE, <<1>>, TRUE)),
     DelayBody(JNumber(FALSE, DigitsPastInt, FALSE)),
     BytesBody("value",
        JObject(<<Member("delaySeconds", JString),
                  Member("delaySeconds", JNumber(FALSE, Digits30, FALSE))>>))}

\* A well-formed object followed by bytes that are not JSON.
TrailingBodies ==
    {TrailingBody(JObject(<<>>)),
     TrailingBody(JObject(<<Member("delaySeconds", JNumber(FALSE, Digits30, FALSE))>>))}

Bodies == ValidBodies \cup NegativeBodies \cup MalformedBodies \cup TrailingBodies

(***************************************************************************)
(* Handlers and responses.                                                 *)
(***************************************************************************)
Handler(baseArgs, successMessage) ==
    [baseArgs |-> baseArgs, successMessage |-> successMessage]

shutdownHandler ==
    Handler(<<"/s">>, "Shutdown command staged. The machine is powering off.")

restartHandler ==
    Handler(<<"/r">>, "Restart command staged. The machine is restarting.")

restartFirmwareHandler ==
    Handler(<<"/r", "/fw">>,
            "Firmware restart command staged. The machine will reboot into BIOS/UEFI.")

\* The mux with /restart-bios registered to restartHandler.
muxFirmwareAsRestart(path) ==
    IF path = "/shutdown" THEN shutdownHandler ELSE restartHandler

\* The handler the mux hands an action path to.
mux(path) ==
    IF path = "/shutdown" THEN shutdownHandler
    ELSE IF path = "/restart" THEN restartHandler
    ELSE restartFirmwareHandler

\* A response as the client receives it: the status line, the Content-Type
\* header and the body; a JSON body is the sequence of its members.
Response(status, contentType, format, fields, text) ==
    [status |-> status, contentType |-> contentType, format |-> format,
     fields |-> fields, text |-> text]

\* writeJSON with the status repeated in the payload.
writeJSONWithStatus(statusCode, message) ==
    Response(statusCode, "application/json", "json",
             <<<<"message", message>>, <<"status", "error">>>>, "")

\* writeJSON(w, statusCode, payload) for payload map[string]string{"message": m}.
writeJSON(statusCode, message) ==
    Response(statusCode, "application/json", "json", <<<<"message", message>>>>, "")

\* http.Error(w, error, code).
httpError(error, code) ==
    Response(code, "text/plain; charset=utf-8", "text", <<>>, error \o "\n")

StatusOK == 200
StatusBadRequest == 400
StatusMethodNotAllowed == 405
StatusInternalServerError == 500
StatusNotImplemented == 501

\* The outcomes of cmd.Run(): the process could not be started, it exited
\* with a non-zero status, it exited with status zero.
SpawnErrors == {"exec: \"shutdown\": executable file not found in %PATH%"}
ExitErrors == {"exit status 1", "exit status 1116"}

\* The argument list without the delay flag when the delay is zero.
BuildArgsNoZeroDelay(baseArgs, delaySeconds) ==
    IF IsZero64(delaySeconds) THEN baseArgs
    ELSE baseArgs \o <<"/t", Itoa(delaySeconds)>>

\* args := append([]string{}, baseArgs...); args = append(args, "/t", strconv.Itoa(delaySeconds))
BuildArgs(baseArgs, delaySeconds) == baseArgs \o <<"/t", Itoa(delaySeconds)>>

\* The message of the 200 response.
SuccessText(successMessage, delaySeconds) ==
    IF Less64(Zero64, delaySeconds)
    THEN successMessage \o " It will run in "
            \o DurationString(RoundSecond(DurationOfSeconds(delaySeconds))) \o "."
    ELSE successMessage

(***************************************************************************)
(* State.                                                                  *)
(***************************************************************************)
VARIABLES
    goos,   \* runtime.GOOS
    conn,   \* per connection: the request being served and the handler's locals
    life    \* the process: main, Execute, runHTTPServer, the context, the server

vars == <<goos, conn, life>>

\* The connections being served.  The handlers share no state (goos is only
\* read), so the requests of one connection show every behaviour of a request.
Conns == {"c1"}

\* A connection with no request on it.
IdleConn ==
    [pc |-> "idle", method |-> "", path |-> "", body |-> NilBody,
     baseArgs |-> <<>>, successMessage |-> "",
     parsed |-> FALSE, delaySeconds |-> Zero64, err |-> "",
     args |-> <<>>, runs |-> <<>>, cmd |-> "none", cmdErr |-> "",
     written |-> <<>>, log |-> <<>>]

\* The commands the service accepts once it runs: svc.AcceptStop | svc.AcceptShutdown.
accepts == {"AcceptStop", "AcceptShutdown"}

\* svc.Status{State: state, Accepts: acc}.
Status(state, acc) == [State |-> state, Accepts |-> acc]

\* The process as the operating system starts it.
\*   mode      whether svc.IsWindowsService() finds the service manager
\*   main      where main is
\*   exec      where windowsService.Execute is ("none" when it is not called)
\*   rhs       where runHTTPServer is, result is what it returned
\*   srv       the http.Server: "new", "listening", "failed" (no listener),
\*             "shutdown" (Shutdown was called)
\*   sd        the goroutine of runHTTPServer that waits for ctx.Done()
\*   ctx       the context: "none" before it is made, "live", "cancelled"
\*   cause     what cancelled the context
\*   done      the channel done of Execute (capacity 1)
\*   r         the change request the service manager is handing over
\*   changes   the statuses sent on changes, in order
\*   status    the variable status of Execute
\*   grace     the 5-second timer of shutdownCtx
\*   busy      srv.Shutdown found a connection that was not idle
\*   exit      the exit status of the process, "none" while it runs
StartLife(mode) ==
    [mode |-> mode, main |-> "start", exec |-> "none",
     rhs |-> "idle", result |-> "", srv |-> "new", sd |-> "none",
     ctx |-> "none", cause |-> "", done |-> <<>>,
     r |-> <<>>, controls |-> 0, signals |-> 0,
     changes |-> <<>>, status |-> Status("", {}),
     stopCmd |-> "", grace |-> "unset", busy |-> FALSE, shutdownCalls |-> 0,
     exit |-> "none", log |-> <<>>]

\* The process once srv.ListenAndServe() listens, started from a console.
ServingLife ==
    [StartLife("standalone") EXCEPT !.main = "serve", !.ctx = "live",
                                    !.rhs = "serving", !.sd = "waiting",
                                    !.srv = "listening"]

\* The listener takes connections: it is bound, srv.Shutdown has not closed
\* it and the process runs.
Accepting == life.srv = "listening" /\ life.exit = "none"

Init ==
    /\ goos \in Platforms
    /\ conn = [c \in Conns |-> IdleConn]
    /\ life = ServingLife

Set(c, r) == conn' = [conn EXCEPT ![c] = r]

\* The server reads a request from the connection: any method, any
\* registered path, any body.  A connection carries one request at a time.
Receive(c) ==
    /\ Accepting
    /\ conn[c].pc = "idle"
    /\ \E m \in Methods, p \in Paths, b \in Bodies :
          Set(c, [IdleConn EXCEPT !.pc = "serve", !.method = m, !.path = p, !.body = b])
    /\ UNCHANGED <<goos, life>>

\* logRequests, then the mux: the request line is logged and the handler
\* registered for the path is called with its base arguments and message.
logRequests(c) ==
    /\ conn[c].pc = "serve"
    /\ LET r == conn[c]
           l == Append(r.log, r.method \o " " \o r.path)
       IN  IF r.path \in ActionPaths
           THEN Set(c, [r EXCEPT !.pc = "method", !.log = l,
                                 !.baseArgs = mux(r.path).baseArgs,
                                 !.successMessage = mux(r.path).successMessage])
           ELSE Set(c, [r EXCEPT !.pc = "index", !.log = l])
    /\ UNCHANGED <<goos, life>>

\* The handler of "/": the page template is rendered.
indexHandler(c) ==
    /\ conn[c].pc = "index"
    /\ Set(c, [conn[c] EXCEPT !.pc = "done",
                  !.written = Append(@, Response(StatusOK, "text/html; charset=utf-8",
                                                 "html", <<>>, "<!DOCTYPE html>"))])
    /\ UNCHANGED <<goos, life>>

\* The method gate without its return: 405 is written and the handler goes on.
MethodGateNoReturn(c) ==
    /\ conn[c].pc = "method"
    /\ IF conn[c].method # MethodPost
       THEN Set(c, [conn[c] EXCEPT !.pc = "platform",
                       !.written = Append(@, httpError("method not allowed",
                                                       StatusMethodNotAllowed))])
       ELSE Set(c, [conn[c] EXCEPT !.pc = "platform"])
    /\ UNCHANGED <<goos, life>>

\* The method gate behind a test of the platform.
MethodGatePlatformFirst(c) ==
    /\ conn[c].pc = "method"
    /\ IF goos # "windows"
       THEN Set(c, [conn[c] EXCEPT !.pc = "done",
                       !.written = Append(@, writeJSON(StatusNotImplemented,
                           "Power control commands are available only on Windows hosts."))])
       ELSE IF conn[c].method # MethodPost
       THEN Set(c, [conn[c] EXCEPT !.pc = "done",
                       !.written = Append(@, httpError("method not allowed",
                                                       StatusMethodNotAllowed))])
       ELSE Set(c, [conn[c] EXCEPT !.pc = "platform"])
    /\ UNCHANGED <<goos, life>>

\* handlePowerAction: if r.Method != http.MethodPost.
MethodGate(c) ==
    /\ conn[c].pc = "method"
    /\ IF conn[c].method # MethodPost
       THEN Set(c, [conn[c] EXCEPT !.pc = "done",
                       !.written = Append(@, httpError("method not allowed",
                                                       StatusMethodNotAllowed))])
       ELSE Set(c, [conn[c] EXCEPT !.pc = "platform"])
    /\ UNCHANGED <<goos, life>>

\* The platform gate written as a test for linux.
PlatformGateLinuxOnly(c) ==
    /\ conn[c].pc = "platform"
    /\ IF goos = "linux"
       THEN Set(c, [conn[c] EXCEPT !.pc = "done",
                       !.written = Append(@, writeJSON(StatusNotImplemented,
                           "Power control commands are available only on Windows hosts."))])
       ELSE Set(c, [conn[c] EXCEPT !.pc = "parse"])
    /\ UNCHANGED <<goos, life>>

\* handlePowerAction: if runtime.GOOS != "windows".
PlatformGate(c) ==
    /\ conn[c].pc = "platform"
    /\ IF goos # "windows"
       THEN Set(c, [conn[c] EXCEPT !.pc = "done",
                       !.written = Append(@, writeJSON(StatusNotImplemented,
                           "Power control commands are available only on Windows hosts."))])
       ELSE Set(c, [conn[c] EXCEPT !.pc = "parse"])
    /\ UNCHANGED <<goos, life>>

\* parseDelay whose error is answered without a return: the handler goes on
\* with the delay parseDelay returned beside the error.
ParseDelayNoReturn(c) ==
    /\ conn[c].pc = "parse"
    /\ LET res == parseDelay(conn[c].body)
       IN  IF res.err # ""
           THEN Set(c, [conn[c] EXCEPT !.pc = "args", !.parsed = TRUE, !.err = res.err,
                           !.delaySeconds = res.delay,
                           !.written = Append(@, writeJSON(StatusBadRequest, res.err))])
           ELSE Set(c, [conn[c] EXCEPT !.pc = "args", !.parsed = TRUE,
                           !.delaySeconds = res.delay])
    /\ UNCHANGED <<goos, life>>

\* handlePowerAction: delaySeconds, err := parseDelay(r).
ParseDelay(c) ==
    /\ conn[c].pc = "parse"
    /\ LET res == parseDelay(conn[c].body)
       IN  IF res.err # ""
           THEN Set(c, [conn[c] EXCEPT !.pc = "done", !.parsed = TRUE, !.err = res.err,
                           !.written = Append(@, writeJSON(StatusBadRequest, res.err))])
           ELSE Set(c, [conn[c] EXCEPT !.pc = "args", !.parsed = TRUE,
                           !.delaySeconds = res.delay])
    /\ UNCHANGED <<goos, life>>

\* The argument list without /t when the delay is zero.
BuildCommandOmitsZeroDelay(c) ==
    /\ conn[c].pc = "args"
    /\ Set(c, [conn[c] EXCEPT !.pc = "exec",
                  !.args = IF IsZero64(conn[c].delaySeconds) THEN conn[c].baseArgs
                           ELSE BuildArgs(conn[c].baseArgs, conn[c].delaySeconds)])
    /\ UNCHANGED <<goos, life>>

\* handlePowerAction: args := append(append([]string{}, baseArgs...), "/t",
\* strconv.Itoa(delaySeconds)).
BuildCommand(c) ==
    /\ conn[c].pc = "args"
    /\ Set(c, [conn[c] EXCEPT !.pc = "exec",
                  !.args = BuildArgs(conn[c].baseArgs, conn[c].delaySeconds)])
    /\ UNCHANGED <<goos, life>>

\* cmd.Run() behind a lock: one command at a time.
StartCommandSerialized(c) ==
    /\ conn[c].pc = "exec"
    /\ \A d \in DOMAIN conn : conn[d].cmd # "running"
    /\ LET r    == conn[c]
           args == r.args
       IN  \/ Set(c, [r EXCEPT !.pc = "wait", !.args = args,
                               !.runs = Append(@, args), !.cmd = "running"])
           \/ \E e \in SpawnErrors :
                 Set(c, [r EXCEPT !.pc = "done", !.args = args,
                            !.runs = Append(@, args), !.cmd = "spawn failed",
                            !.cmdErr = e,
                            !.log = Append(@, <<"power command failed", args, e>>),
                            !.written = Append(@, writeJSON(StatusInternalServerError,
                                                   "Failed to execute power command."))])
    /\ UNCHANGED <<goos, life>>

\* handlePowerAction: cmd.Run() starts the process with the argument list;
\* a spawn failure is logged and answered at once.
StartCommand(c) ==
    /\ conn[c].pc = "exec"
    /\ LET r    == conn[c]
           args == r.args
       IN  \/ Set(c, [r EXCEPT !.pc = "wait", !.args = args,
                               !.runs = Append(@, args), !.cmd = "running"])
           \/ \E e \in SpawnErrors :
                 Set(c, [r EXCEPT !.pc = "done", !.args = args,
                            !.runs = Append(@, args), !.cmd = "spawn failed",
                            !.cmdErr = e,
                            !.log = Append(@, <<"power command failed", args, e>>),
                            !.written = Append(@, writeJSON(StatusInternalServerError,
                                                   "Failed to execute power command."))])
    /\ UNCHANGED <<goos, life>>

\* cmd.Run() returning, with the error of the command put in the response.
CommandExitLeaksError(c) ==
    /\ conn[c].pc = "wait"
    /\ LET r == conn[c]
       IN  \/ \E e \in ExitErrors :
                 Set(c, [r EXCEPT !.pc = "done", !.cmd = "exited non-zero", !.cmdErr = e,
                            !.log = Append(@, <<"power command failed", r.args, e>>),
                            !.written = Append(@, writeJSON(StatusInternalServerError,
                                                   "Failed to execute power command: " \o e))])
           \/ Set(c, [r EXCEPT !.pc = "done", !.cmd = "exited zero",
                         !.written = Append(@, writeJSON(StatusOK,
                                         SuccessText(r.successMessage, r.delaySeconds)))])
    /\ UNCHANGED <<goos, life>>

\* handlePowerAction: cmd.Run() returns after the process exited.
CommandExit(c) ==
    /\ conn[c].pc = "wait"
    /\ LET r == conn[c]
       IN  \/ \E e \in ExitErrors :
                 Set(c, [r EXCEPT !.pc = "done", !.cmd = "exited non-zero", !.cmdErr = e,
                            !.log = Append(@, <<"power command failed", r.args, e>>),
                            !.written = Append(@, writeJSON(StatusInternalServerError,
                                                   "Failed to execute power command."))])
           \/ Set(c, [r EXCEPT !.pc = "done", !.cmd = "exited zero",
                         !.written = Append(@, writeJSON(StatusOK,
                                         SuccessText(r.successMessage, r.delaySeconds)))])
    /\ UNCHANGED <<goos, life>>

\* The handler returns: the request-scoped values are dropped and the
\* connection waits for its next request.
Finish(c) ==
    /\ conn[c].pc = "done"
    /\ Set(c, IdleConn)
    /\ UNCHANGED <<goos, life>>

handlePowerAction(c) ==
    \/ MethodGate(c)
    \/ PlatformGate(c)
    \/ ParseDelay(c)
    \/ BuildCommand(c)
    \/ StartCommand(c)
    \/ CommandExit(c)

Next ==
    \E c \in Conns :
        \/ Receive(c)
        \/ logRequests(c)
        \/ indexHandler(c)
        \/ handlePowerAction(c)
        \/ Finish(c)

Spec == Init /\ [][Next]_vars

(***************************************************************************)
(* The process: main, windowsService.Execute, runHTTPServer.               *)
(***************************************************************************)
\* The service manager sends at most MaxControls change requests and the
\* console at most MaxSignals signals.
MaxControls == 2
MaxSignals == 2

\* os.Interrupt and syscall.SIGTERM, the signals given to signal.NotifyContext.
Signals == {"interrupt", "terminate"}

\* The change requests of the service manager; Pause stands for the commands
\* Execute has no case for.
Cmds == {"Interrogate", "Stop", "Shutdown", "Pause"}

\* The error of net.Listen when the address is taken.
ErrBind == "listen tcp :8181: bind: address already in use"

\* The requests sent while the life of the process is followed.
SampleRequests ==
    { [method |-> "POST", path |-> "/shutdown", body |-> NilBody],
      [method |-> "POST", path |-> "/shutdown",
       body |-> DelayBody(JNumber(FALSE, Digits30, FALSE))],
      [method |-> "POST", path |-> "/restart-bios",
       body |-> DelayBody(JNumber(FALSE, Digits60, FALSE))],
      [method |-> "GET", path |-> "/restart", body |-> NilBody] }

SetLife(l) == life' = l

\* A request is on the connection and its handler has not returned.
InFlight(c) == conn[c].pc \notin {"idle", "aborted"}

\* The process ends: every goroutine ends with it, a handler wherever it
\* is.  A command that was started is another process and is left alone.
Abort ==
    conn' = [c \in DOMAIN conn |->
                IF conn[c].pc = "idle" THEN conn[c]
                ELSE [conn[c] EXCEPT !.pc = "aborted"]]

\* The server reads one of the sample requests from the connection.
ReceiveSample(c) ==
    /\ Accepting
    /\ conn[c].pc = "idle"
    /\ \E q \in SampleRequests :
          Set(c, [IdleConn EXCEPT !.pc = "serve", !.method = q.method,
                                  !.path = q.path, !.body = q.body])
    /\ UNCHANGED <<goos, life>>

\* A command whose handler ended with the process exits by itself.
OrphanExit(c) ==
    /\ conn[c].pc = "aborted"
    /\ conn[c].cmd = "running"
    /\ \/ Set(c, [conn[c] EXCEPT !.cmd = "exited zero"])
       \/ \E e \in ExitErrors :
             Set(c, [conn[c] EXCEPT !.cmd = "exited non-zero", !.cmdErr = e])
    /\ UNCHANGED <<goos, life>>

\* main: handled, err := maybeRunService().
maybeRunService ==
    /\ life.main = "start"
    /\ life.exit = "none"
    /\ \/ /\ life.mode = "service"
          /\ SetLife([life EXCEPT !.main = "svc.Run", !.exec = "start"])
          /\ UNCHANGED conn
       \/ /\ life.mode = "standalone"
          /\ SetLife([life EXCEPT !.main = "notify"])
          /\ UNCHANGED conn
       \/ /\ life.mode = "unknown"
          /\ SetLife([life EXCEPT !.main = "exited", !.exit = "1",
                        !.log = Append(@, "service initialization failed")])
          /\ Abort
    /\ UNCHANGED goos

\* main: ctx, stop := signal.NotifyContext(...); runHTTPServer(ctx) is called.
NotifyContext ==
    /\ life.main = "notify"
    /\ SetLife([life EXCEPT !.main = "serve", !.ctx = "live", !.rhs = "called"])
    /\ UNCHANGED <<goos, conn>>

\* main after runHTTPServer(ctx) returned: log.Fatalf on an error, return
\* otherwise.  The process ends either way.
mainReturns ==
    /\ life.main = "serve"
    /\ life.rhs = "returned"
    /\ IF life.result # ""
       THEN SetLife([life EXCEPT !.main = "exited", !.exit = "1",
                       !.log = Append(@, "server failed: " \o life.result)])
       ELSE SetLife([life EXCEPT !.main = "exited", !.exit = "0"])
    /\ Abort
    /\ UNCHANGED goos

\* main after svc.Run returned: handled is true and err is nil, main returns.
mainHandled ==
    /\ life.main = "svc.Run"
    /\ life.exec = "returned"
    /\ SetLife([life EXCEPT !.main = "exited", !.exit = "0"])
    /\ Abort
    /\ UNCHANGED goos

main == maybeRunService \/ NotifyContext \/ mainReturns \/ mainHandled

\* A signal that also ends the commands started with the context, as
\* exec.CommandContext would.
SignalKillsCommands ==
    /\ life.mode = "standalone"
    /\ life.ctx # "none"
    /\ life.exit = "none"
    /\ life.signals < MaxSignals
    /\ \E sig \in Signals :
          SetLife([life EXCEPT !.signals = @ + 1,
                     !.ctx = "cancelled",
                     !.cause = IF life.ctx = "live" THEN sig ELSE @])
    /\ conn' = [c \in DOMAIN conn |->
                  IF conn[c].cmd = "running"
                  THEN [conn[c] EXCEPT !.cmd = "killed"]
                  ELSE conn[c]]
    /\ UNCHANGED goos

\* The console sends a signal to the process.  The first one cancels the
\* context of signal.NotifyContext; the context stays cancelled after that.
Signal ==
    /\ life.mode = "standalone"
    /\ life.ctx # "none"
    /\ life.exit = "none"
    /\ life.signals < MaxSignals
    /\ \E sig \in Signals :
          SetLife([life EXCEPT !.signals = @ + 1,
                     !.ctx = "cancelled",
                     !.cause = IF life.ctx = "live" THEN sig ELSE @])
    /\ UNCHANGED <<goos, conn>>

\* runHTTPServer: the mux and the server are made and the goroutine that
\* waits for ctx.Done() is started.
StartShutdownWaiter ==
    /\ life.rhs = "called"
    /\ life.exit = "none"
    /\ SetLife([life EXCEPT !.rhs = "listen", !.sd = "waiting"])
    /\ UNCHANGED <<goos, conn>>

\* srv.ListenAndServe(): ErrServerClosed when Shutdown was called already,
\* the error of net.Listen when the address cannot be bound, and the accept
\* loop otherwise.
ListenAndServe ==
    /\ life.rhs = "listen"
    /\ life.exit = "none"
    /\ IF life.srv = "shutdown"
       THEN SetLife([life EXCEPT !.rhs = "closed"])
       ELSE \/ SetLife([life EXCEPT !.rhs = "serving", !.srv = "listening"])
            \/ SetLife([life EXCEPT !.rhs = "failed", !.srv = "failed"])
    /\ UNCHANGED <<goos, conn>>

\* srv.Serve leaves its accept loop with ErrServerClosed once Shutdown has
\* closed the listener.
ServeClosed ==
    /\ life.rhs = "serving"
    /\ life.srv = "shutdown"
    /\ life.exit = "none"
    /\ SetLife([life EXCEPT !.rhs = "closed"])
    /\ UNCHANGED <<goos, conn>>

\* runHTTPServer returns: the error of ListenAndServe, nil for
\* ErrServerClosed.  Under the service manager the goroutine of Execute
\* sends the result on done.
Return ==
    /\ life.rhs \in {"closed", "failed"}
    /\ life.exit = "none"
    /\ LET res == IF life.rhs = "failed" THEN ErrBind ELSE ""
       IN  SetLife([life EXCEPT !.rhs = "returned", !.result = res,
                      !.done = IF life.mode = "service" THEN <<res>> ELSE @])
    /\ UNCHANGED <<goos, conn>>

\* srv.Shutdown that leaves the listener open.
ShutdownCallKeepsListener ==
    /\ life.sd = "waiting"
    /\ life.ctx = "cancelled"
    /\ life.exit = "none"
    /\ SetLife([life EXCEPT !.sd = "shutdown", !.grace = "running",
                  !.busy = \E c \in DOMAIN conn : InFlight(c),
                  !.shutdownCalls = @ + 1])
    /\ UNCHANGED <<goos, conn>>

\* The goroutine of runHTTPServer: <-ctx.Done() is over, shutdownCtx is made
\* with its 5-second timer and srv.Shutdown(shutdownCtx) is called, which
\* closes the listener.
ShutdownCall ==
    /\ life.sd = "waiting"
    /\ life.ctx = "cancelled"
    /\ life.exit = "none"
    /\ SetLife([life EXCEPT !.sd = "shutdown", !.grace = "running",
                  !.busy = \E c \in DOMAIN conn : InFlight(c),
                  !.shutdownCalls = @ + 1,
                  !.srv = IF @ \in {"new", "listening"} THEN "shutdown" ELSE @])
    /\ UNCHANGED <<goos, conn>>

\* The goroutine as a loop: after srv.Shutdown returned it waits for
\* ctx.Done() again.
ShutdownReturnsAndWaitsAgain ==
    /\ life.sd = "shutdown"
    /\ life.shutdownCalls < MaxSignals + 1
    /\ life.exit = "none"
    /\ \/ /\ \A c \in DOMAIN conn : ~InFlight(c)
          /\ SetLife([life EXCEPT !.sd = "waiting"])
       \/ /\ life.grace = "expired"
          /\ life.busy
          /\ SetLife([life EXCEPT !.sd = "waiting",
                        !.log = Append(@, "graceful shutdown error: context deadline exceeded")])
    /\ UNCHANGED <<goos, conn>>

\* srv.Shutdown returns: nil when no connection is active any more, the
\* error of shutdownCtx, which is logged, when it had to wait for a
\* connection and the timer went off first.
ShutdownReturns ==
    /\ life.sd = "shutdown"
    /\ life.exit = "none"
    /\ \/ /\ \A c \in DOMAIN conn : ~InFlight(c)
          /\ SetLife([life EXCEPT !.sd = "returned"])
       \/ /\ life.grace = "expired"
          /\ life.busy
          /\ SetLife([life EXCEPT !.sd = "returned",
                        !.log = Append(@, "graceful shutdown error: context deadline exceeded")])
    /\ UNCHANGED <<goos, conn>>

\* The 5 seconds of shutdownCtx are over.
GraceExpires ==
    /\ life.grace = "running"
    /\ life.exit = "none"
    /\ SetLife([life EXCEPT !.grace = "expired"])
    /\ UNCHANGED <<goos, conn>>

runHTTPServer ==
    \/ StartShutdownWaiter
    \/ ListenAndServe
    \/ ServeClosed
    \/ Return

shutdownWaiter == ShutdownCall \/ ShutdownReturns

\* The service manager hands a change request to Execute; r has no buffer,
\* so one request waits at a time.
Control ==
    /\ life.exec \notin {"none", "returned"}
    /\ life.exit = "none"
    /\ life.r = <<>>
    /\ life.controls < MaxControls
    /\ \E cmd \in Cmds :
          SetLife([life EXCEPT !.r = <<cmd>>, !.controls = @ + 1])
    /\ UNCHANGED <<goos, conn>>

\* Execute without its first status.
ReportStartPendingSilent ==
    /\ life.exec = "start"
    /\ SetLife([life EXCEPT !.exec = "serve"])
    /\ UNCHANGED <<goos, conn>>

\* Execute: changes <- svc.Status{State: svc.StartPending}.
ReportStartPending ==
    /\ life.exec = "start"
    /\ SetLife([life EXCEPT !.exec = "serve",
                  !.changes = Append(@, Status("StartPending", {}))])
    /\ UNCHANGED <<goos, conn>>

\* Execute: the context and done are made and the goroutine that runs
\* runHTTPServer(ctx) is started.
StartServer ==
    /\ life.exec = "serve"
    /\ SetLife([life EXCEPT !.exec = "report", !.ctx = "live", !.rhs = "called"])
    /\ UNCHANGED <<goos, conn>>

\* Execute: status := svc.Status{State: svc.Running, Accepts: accepts};
\* changes <- status.
ReportRunning ==
    /\ life.exec = "report"
    /\ LET st == Status("Running", accepts)
       IN  SetLife([life EXCEPT !.exec = "loop", !.status = st,
                      !.changes = Append(@, st)])
    /\ UNCHANGED <<goos, conn>>

\* Execute, case err := <-done: the server ended by itself; the error is
\* logged, Stopped is reported and Execute is about to return false, 0.
ServerExited ==
    /\ life.exec = "loop"
    /\ life.done # <<>>
    /\ LET st == Status("Stopped", {})
           err == life.done[1]
       IN  SetLife([life EXCEPT !.exec = "return", !.done = <<>>, !.status = st,
                      !.changes = Append(@, st),
                      !.log = IF err # "" THEN Append(@, "service server exited: " \o err)
                              ELSE @])
    /\ UNCHANGED <<goos, conn>>

\* Interrogate answered with a status without the accepted commands.
InterrogateDropsAccepts ==
    /\ life.exec = "loop"
    /\ life.r = <<"Interrogate">>
    /\ SetLife([life EXCEPT !.r = <<>>,
                  !.status = Status(life.status.State, {}),
                  !.changes = Append(@, Status(life.status.State, {}))])
    /\ UNCHANGED <<goos, conn>>

\* Execute, case svc.Interrogate: changes <- status.
Interrogate ==
    /\ life.exec = "loop"
    /\ life.r = <<"Interrogate">>
    /\ SetLife([life EXCEPT !.r = <<>>, !.changes = Append(@, life.status)])
    /\ UNCHANGED <<goos, conn>>

\* Execute, default case of the switch: the request is dropped.
IgnoreControl ==
    /\ life.exec = "loop"
    /\ life.r # <<>>
    /\ life.r[1] \notin {"Interrogate", "Stop", "Shutdown"}
    /\ SetLife([life EXCEPT !.r = <<>>])
    /\ UNCHANGED <<goos, conn>>

\* Execute, case svc.Stop, svc.Shutdown: StopPending is reported.
StopRequested ==
    /\ life.exec = "loop"
    /\ life.r # <<>>
    /\ life.r[1] \in {"Stop", "Shutdown"}
    /\ LET st == Status("StopPending", accepts)
       IN  SetLife([life EXCEPT !.exec = "cancel", !.r = <<>>, !.status = st,
                      !.stopCmd = life.r[1],
                      !.changes = Append(@, st)])
    /\ UNCHANGED <<goos, conn>>

\* Execute, case svc.Stop, svc.Shutdown: cancel().
Cancel ==
    /\ life.exec = "cancel"
    /\ SetLife([life EXCEPT !.exec = "wait", !.ctx = "cancelled",
                  !.cause = IF life.ctx = "live" THEN life.stopCmd ELSE @])
    /\ UNCHANGED <<goos, conn>>

\* Stopped reported without the wait for done.
AwaitServerNoWait ==
    /\ life.exec = "wait"
    /\ LET st == Status("Stopped", {})
       IN  SetLife([life EXCEPT !.exec = "return", !.done = <<>>, !.status = st,
                      !.changes = Append(@, st)])
    /\ UNCHANGED <<goos, conn>>

\* Execute, case svc.Stop, svc.Shutdown: err := <-done, logged unless it is
\* nil or context.Canceled; Stopped is reported and Execute is about to
\* return true, 0.
AwaitServer ==
    /\ life.exec = "wait"
    /\ life.done # <<>>
    /\ LET st == Status("Stopped", {})
           err == life.done[1]
       IN  SetLife([life EXCEPT !.exec = "return", !.done = <<>>, !.status = st,
                      !.changes = Append(@, st),
                      !.log = IF err # "" THEN Append(@, "shutdown error: " \o err)
                              ELSE @])
    /\ UNCHANGED <<goos, conn>>

\* Execute returns: the deferred cancel() runs, and svc.Run returns to
\* maybeRunService.
ExecuteReturns ==
    /\ life.exec = "return"
    /\ SetLife([life EXCEPT !.exec = "returned", !.ctx = "cancelled",
                  !.cause = IF life.ctx = "live" THEN "defer" ELSE @])
    /\ UNCHANGED <<goos, conn>>

Execute ==
    \/ ReportStartPending
    \/ StartServer
    \/ ReportRunning
    \/ ServerExited
    \/ Interrogate
    \/ IgnoreControl
    \/ StopRequested
    \/ Cancel
    \/ AwaitServer
    \/ ExecuteReturns

\* The requests of the one connection that is followed with the process.
Serve ==
    \E c \in Conns :
        \/ ReceiveSample(c)
        \/ logRequests(c)
        \/ handlePowerAction(c)
        \/ Finish(c)
        \/ OrphanExit(c)

\* A process is started on a platform: from a console, by the service
\* manager (on windows), or where svc.IsWindowsService() fails.
InitLife ==
    /\ goos \in Platforms
    /\ conn = [c \in Conns |-> IdleConn]
    /\ \E mode \in {"standalone", "service", "unknown"} :
          /\ mode # "standalone" => goos = "windows"
          /\ life = StartLife(mode)

NextLife ==
    \/ main
    \/ Signal
    \/ Control
    \/ Execute
    \/ runHTTPServer
    \/ shutdownWaiter
    \/ GraceExpires
    \/ Serve

SpecLife == InitLife /\ [][NextLife]_vars

\* The Go scheduler runs every goroutine that can run: main, Execute,
\* runHTTPServer and the goroutine that waits for ctx.Done().
FairLife ==
    /\ SpecLife
    /\ WF_vars(main)
    /\ WF_vars(Execute)
    /\ WF_vars(runHTTPServer)
    /\ WF_vars(shutdownWaiter)

(***************************************************************************)
(* Two connections served at once by a process that listens.               *)
(***************************************************************************)
ConcConns == {"c1", "c2"}

InitConc ==
    /\ goos \in Platforms
    /\ conn = [c \in ConcConns |-> IdleConn]
    /\ life = ServingLife

\* One step of the goroutine that serves connection c.
ServeConn(c) ==
    \/ ReceiveSample(c)
    \/ logRequests(c)
    \/ handlePowerAction(c)
    \/ Finish(c)

NextConc == \E c \in ConcConns : ServeConn(c)

SpecConc == InitConc /\ [][NextConc]_vars

\* The Go scheduler runs the goroutine of a connection that is about to call
\* cmd.Run().  Nothing is asked of the commands, which are other processes
\* and take their time.
FairConc == SpecConc /\ \A c \in ConcConns : WF_vars(StartCommand(c))

(***************************************************************************)
(* What the claims are stated in.                                          *)
(***************************************************************************)
\* The request connection c is serving, if any.
Serving(c) == conn[c].pc # "idle"
Answered(c) == conn[c].pc = "done"
ActionRequest(c) == Serving(c) /\ conn[c].path \in ActionPaths
PostOn(c, platforms) ==
    ActionRequest(c) /\ conn[c].method = MethodPost /\ goos \in platforms

\* Neither parseDelay nor the platform command was called for the request.
Untouched(c) ==
    /\ ~conn[c].parsed
    /\ conn[c].runs = <<>>
    /\ conn[c].cmd = "none"

\* The platform command was not called for the request.
NotExecuted(c) == conn[c].runs = <<>> /\ conn[c].cmd = "none"

\* The one response of the request is the JSON object {"message": m} with
\* the given status.
AnsweredJSON(c, status, m) ==
    conn[c].written = <<Response(status, "application/json", "json",
                                 <<<<"message", m>>>>, "")>>

\* The delay a well-formed body asks for, as the digits of its literal:
\* the literal of delaySeconds when there is one, 0 otherwise.
RequestedDigits(b) ==
    IF /\ b.kind = "bytes" /\ b.form = "value" /\ b.value.t = "object"
       /\ Len(b.value.members) = 1
       /\ b.value.members[1].val.t = "number"
       /\ b.value.members[1].key \in {"delaySeconds", "DELAYSECONDS"}
    THEN b.value.members[1].val.num.digits
    ELSE <<0>>

\* C1: a request to an action endpoint whose method is not POST is answered
\* 405, and neither parseDelay nor the platform command is called for it,
\* whatever its body and whatever the platform.
C1_NonPostIs405 ==
    \A c \in Conns :
        (ActionRequest(c) /\ conn[c].method # MethodPost) =>
            /\ Untouched(c)
            /\ conn[c].pc \in {"serve", "method", "done"}
            /\ Answered(c) =>
                  /\ Len(conn[c].written) = 1
                  /\ conn[c].written[1].status = 405

C1_Witness ==
    \E c \in Conns :
        /\ Answered(c) /\ goos = "windows"
        /\ conn[c].path = "/shutdown" /\ conn[c].method = "GET"
        /\ conn[c].body = DelayBody(JNumber(FALSE, Digits30, FALSE))
        /\ conn[c].written[1].status = 405

\* C2: on a platform other than windows every POST to an action endpoint is
\* answered 501 with the fixed message, whatever its body, and neither
\* parseDelay nor the platform command is called.
C2_UnsupportedPlatformIs501 ==
    \A c \in Conns :
        PostOn(c, Platforms \ {"windows"}) =>
            /\ Untouched(c)
            /\ Answered(c) =>
                  AnsweredJSON(c, 501,
                      "Power control commands are available only on Windows hosts.")

C2_Witness ==
    \E c \in Conns :
        /\ PostOn(c, {"darwin"}) /\ Answered(c)
        /\ conn[c].path = "/restart-bios"
        /\ conn[c].body \in NegativeBodies \cup MalformedBodies
        /\ conn[c].written[1].status = 501

\* C3: on windows a POST whose body decodes to a negative delaySeconds is
\* answered 400 "delaySeconds must be zero or positive" and the platform
\* command is never called for it; every argument list that is run belongs
\* to a request without a negative delay and carries the unsigned decimal
\* text of the delay it asked for, so no negative delay is clamped and
\* passed on.
C3_NegativeDelayIs400 ==
    \A c \in Conns :
        /\ (PostOn(c, {"windows"}) /\ conn[c].body \in NegativeBodies) =>
              /\ NotExecuted(c)
              /\ Answered(c) =>
                    AnsweredJSON(c, 400, "delaySeconds must be zero or positive")
        /\ \A k \in 1..Len(conn[c].runs) :
              /\ conn[c].body \notin NegativeBodies
              /\ ~IsNeg64(conn[c].delaySeconds)
              /\ conn[c].runs[k][Len(conn[c].runs[k])]
                    = DigitsText(RequestedDigits(conn[c].body))

C3_Witness ==
    \E c \in Conns :
        /\ PostOn(c, {"windows"}) /\ Answered(c)
        /\ conn[c].body = DelayBody(JNumber(TRUE, <<5>>, FALSE))
        /\ conn[c].parsed
        /\ conn[c].written[1].status = 400

\* The bodies that are present and are not a JSON document with an integer
\* delaySeconds: those the decoder rejects, and those with bytes that are
\* not JSON after a first value.
PresentButMalformed == MalformedBodies \cup TrailingBodies

\* C4: on windows a POST whose body is present but malformed (not JSON, or
\* delaySeconds of the wrong type) is answered 400 with the decode error as
\* its message, and the platform command is never called for it.
C4_MalformedBodyIs400 ==
    \A c \in Conns :
        (PostOn(c, {"windows"}) /\ conn[c].body \in PresentButMalformed) =>
            /\ NotExecuted(c)
            /\ Answered(c) =>
                  /\ Decode(conn[c].body).err \notin {"", "EOF"}
                  /\ AnsweredJSON(c, 400,
                        "invalid request body: " \o Decode(conn[c].body).err)

\* C4 for the bodies on which Decode fails (a first value that is not JSON,
\* is cut short, is not an object, or whose delaySeconds is not an integer
\* literal in the range of int): 400 with the decode error, no command.
C4_DecodeFailureIs400 ==
    \A c \in Conns :
        (PostOn(c, {"windows"}) /\ conn[c].body \in MalformedBodies) =>
            /\ NotExecuted(c)
            /\ Answered(c) =>
                  /\ Decode(conn[c].body).err \notin {"", "EOF"}
                  /\ AnsweredJSON(c, 400,
                        "invalid request body: " \o Decode(conn[c].body).err)

C4_Witness ==
    \E c \in Conns :
        /\ PostOn(c, {"windows"}) /\ Answered(c)
        /\ conn[c].body = DelayBody(JString)
        /\ AnsweredJSON(c, 400,
              "invalid request body: json: cannot unmarshal string into Go value of type int")

\* C5: a POST with no body, with an empty body or with body {} is served as
\* a POST with body {"delaySeconds": 0}: parseDelay gives 0 and no error,
\* and the argument list, the status and the message are those of the
\* explicit zero delay, which depend on the endpoint, the platform and the
\* outcome of the command only.
ZeroEquivalentBodies == {NilBody, EmptyBody, EmptyObjectBody, ZeroBody}

C5_AbsentBodyIsZeroDelay ==
    \A c \in Conns :
        (PostOn(c, Platforms) /\ conn[c].body \in ZeroEquivalentBodies) =>
            /\ conn[c].parsed => conn[c].err = "" /\ conn[c].delaySeconds = Zero64
            /\ conn[c].runs \in {<<>>, <<mux(conn[c].path).baseArgs \o <<"/t", "0">>>>}
            /\ Answered(c) =>
                  IF goos # "windows"
                  THEN conn[c].written[1].status = 501
                  ELSE IF conn[c].cmd = "exited zero"
                  THEN AnsweredJSON(c, 200, mux(conn[c].path).successMessage)
                  ELSE /\ conn[c].cmd \in {"spawn failed", "exited non-zero"}
                       /\ AnsweredJSON(c, 500, "Failed to execute power command.")

C5_Witness ==
    \E c \in Conns :
        /\ PostOn(c, {"windows"}) /\ Answered(c)
        /\ conn[c].body = EmptyBody
        /\ conn[c].runs = <<<<"/r", "/t", "0">>>>
        /\ conn[c].written[1].status = 200

\* C6: every argument list that is run holds exactly one delay flag /t; the
\* flag comes right after the base flags and is followed by the decimal
\* text of the requested delay, which ends the list.
C6_OneDelayFlag ==
    \A c \in Conns :
        \A k \in 1..Len(conn[c].runs) :
            LET args == conn[c].runs[k]
                n    == Len(conn[c].baseArgs)
            IN  /\ Cardinality({i \in 1..Len(args) : args[i] = "/t"}) = 1
                /\ Len(args) = n + 2
                /\ SubSeq(args, 1, n) = conn[c].baseArgs
                /\ args[n + 1] = "/t"
                /\ args[n + 2] = DigitsText(RequestedDigits(conn[c].body))

C6_Witness ==
    \E c \in Conns :
        /\ conn[c].path = "/restart-bios"
        /\ conn[c].body = DelayBody(JNumber(FALSE, DigitsMaxInt, FALSE))
        /\ conn[c].runs = <<<<"/r", "/fw", "/t", "9223372036854775807">>>>

\* C7: the flags before /t are fixed by the endpoint: /s for /shutdown, /r
\* for /restart, /r /fw for /restart-bios, whatever the body and the delay.
ExpectedBaseFlags(path) ==
    IF path = "/shutdown" THEN <<"/s">>
    ELSE IF path = "/restart" THEN <<"/r">>
    ELSE <<"/r", "/fw">>

C7_BaseFlagsByEndpoint ==
    \A c \in Conns :
        \A k \in 1..Len(conn[c].runs) :
            LET args == conn[c].runs[k]
                t    == CHOOSE i \in 1..Len(args) : args[i] = "/t"
            IN  /\ \E i \in 1..Len(args) : args[i] = "/t"
                /\ SubSeq(args, 1, t - 1) = ExpectedBaseFlags(conn[c].path)
                /\ conn[c].path = "/shutdown" =>
                      \A i \in 1..Len(args) : args[i] \notin {"/r", "/fw"}
                /\ conn[c].path = "/restart" =>
                      \A i \in 1..Len(args) : args[i] \notin {"/s", "/fw"}
                /\ conn[c].path = "/restart-bios" =>
                      \A i \in 1..Len(args) : args[i] # "/s"

C7_Witness ==
    \E c \in Conns, d \in {Digits90} :
        /\ conn[c].cmd = "running"
        /\ conn[c].path = "/restart-bios"
        /\ conn[c].body = DelayBody(JNumber(FALSE, d, FALSE))
        /\ conn[c].runs = <<<<"/r", "/fw", "/t", "90">>>>

\* C8: when the platform command cannot be started or exits non-zero the
\* request is answered 500 with exactly "Failed to execute power command.";
\* the arguments and the error are logged and are no part of the response.
C8_CommandFailureIs500 ==
    \A c \in Conns :
        (Answered(c) /\ conn[c].cmd \in {"spawn failed", "exited non-zero"}) =>
            /\ PostOn(c, {"windows"})
            /\ AnsweredJSON(c, 500, "Failed to execute power command.")
            /\ conn[c].cmdErr \in SpawnErrors \cup ExitErrors
            /\ conn[c].log[Len(conn[c].log)]
                  = <<"power command failed", conn[c].runs[1], conn[c].cmdErr>>

C8_Witness ==
    \E c \in Conns :
        /\ Answered(c) /\ conn[c].cmd = "spawn failed"
        /\ conn[c].path = "/restart" /\ conn[c].body = NilBody
        /\ conn[c].written[1].status = 500

\* Long division of a decimal numeral by a small m: the digits of the
\* quotient and the remainder.
RECURSIVE DecimalDivFrom(_, _, _, _, _)
DecimalDivFrom(ds, m, k, rem, q) ==
    IF k > Len(ds) THEN [q |-> q, r |-> rem]
    ELSE DecimalDivFrom(ds, m, k + 1, (rem * 10 + ds[k]) % m,
                        Append(q, (rem * 10 + ds[k]) \div m))

DecimalDiv(ds, m) == DecimalDivFrom(ds, m, 1, 0, <<>>)

\* The delay of ds seconds in hours, minutes and seconds.
HoursMinutesSeconds(ds) ==
    LET bySec == DecimalDiv(ds, 60)
        byMin == DecimalDiv(bySec.q, 60)
        s     == FormatDigits(Digits4(bySec.r)) \o "s"
        m     == FormatDigits(Digits4(byMin.r)) \o "m"
        h     == FormatDigits(byMin.q) \o "h"
    IN  IF \A k \in 1..Len(bySec.q) : bySec.q[k] = 0 THEN s
        ELSE IF \A k \in 1..Len(byMin.q) : byMin.q[k] = 0 THEN m \o s
        ELSE h \o m \o s

\* The texts that restate a delay of ds seconds.
Restatements(ds) ==
    {DigitsText(ds) \o "s", DigitsText(ds) \o " seconds", HoursMinutesSeconds(ds)}

\* C9: on windows, when the platform command succeeds, the POST is answered
\* 200; the message is the base success message of the endpoint when the
\* delay is 0, and the base message followed by a restatement of exactly
\* the requested delay when the delay is positive.
C9_SuccessMessage ==
    \A c \in Conns :
        (Answered(c) /\ conn[c].cmd = "exited zero") =>
            LET ds   == RequestedDigits(conn[c].body)
                base == mux(conn[c].path).successMessage
            IN  /\ PostOn(c, {"windows"})
                /\ \E t \in IF ds = <<0>> THEN {base}
                            ELSE {base \o " It will run in " \o r \o "." :
                                     r \in Restatements(ds)} :
                      AnsweredJSON(c, 200, t)

\* The delays whose Duration fits 64 bits: up to 9223372036 seconds.
FitsDuration(ds) == Len(ds) < 10 \/ (Len(ds) = 10 /\ ds # DigitsPastDuration)

\* C9 for the delays whose time.Duration does not overflow.
C9_WithinDurationRange ==
    \A c \in Conns :
        (Answered(c) /\ conn[c].cmd = "exited zero"
            /\ FitsDuration(RequestedDigits(conn[c].body))) =>
            LET ds   == RequestedDigits(conn[c].body)
                base == mux(conn[c].path).successMessage
            IN  /\ PostOn(c, {"windows"})
                /\ \E t \in IF ds = <<0>> THEN {base}
                            ELSE {base \o " It will run in " \o r \o "." :
                                     r \in Restatements(ds)} :
                      AnsweredJSON(c, 200, t)

\* C10 as claimed: every response of an action endpoint has one of the five
\* statuses and a body that is a JSON object with the single field message.
StatusCodes == {200, 400, 405, 500, 501}

IsMessageObject(w) ==
    /\ w.format = "json"
    /\ w.contentType = "application/json"
    /\ Len(w.fields) = 1
    /\ w.fields[1][1] = "message"

C10_EveryResponseIsMessageObject ==
    \A c \in Conns :
        ActionRequest(c) =>
            \A k \in 1..Len(conn[c].written) :
                /\ conn[c].written[k].status \in StatusCodes
                /\ IsMessageObject(conn[c].written[k])

\* C10 as the code has it: every response of an action endpoint has one of
\* the five statuses; the responses 200, 400, 500 and 501 are JSON objects
\* with the single field message, and the 405 response is the plain text
\* "method not allowed" written by http.Error.
C10_ResponseEnvelope ==
    \A c \in Conns :
        ActionRequest(c) =>
            \A k \in 1..Len(conn[c].written) :
                LET w == conn[c].written[k]
                IN  /\ w.status \in StatusCodes
                    /\ w.status # 405 => IsMessageObject(w)
                    /\ w.status = 405 =>
                          /\ w.format = "text"
                          /\ w.contentType = "text/plain; charset=utf-8"
                          /\ w.text = "method not allowed\n"

C10_Witness ==
    \E c \in Conns :
        /\ ActionRequest(c) /\ Answered(c)
        /\ conn[c].method = "DELETE"
        /\ conn[c].written[1].status = 405
        /\ conn[c].written[1].format = "text"

(***************************************************************************)
(* The statuses reported to the service manager.                           *)
(***************************************************************************)
\* The place of a state in StartPending, Running, StopPending, Stopped.
Rank(state) ==
    CASE state = "StartPending" -> 1
      [] state = "Running"      -> 2
      [] state = "StopPending"  -> 3
      [] state = "Stopped"      -> 4

\* The states reported so far, in order.
Reported == [i \in 1..Len(life.changes) |-> life.changes[i].State]

HasReported(state) == \E i \in 1..Len(Reported) : Reported[i] = state

\* net.Listen failed: ListenAndServe returned its error.
BindFailed == life.srv = "failed"

\* C11: the statuses sent on changes follow StartPending, Running,
\* StopPending, Stopped in that order: the first is StartPending, each
\* status repeats the state before it or reports the next one (no state is
\* skipped, none comes back), and nothing follows Stopped.
C11_StatusesInOrder ==
    /\ Len(Reported) > 0 => Reported[1] = "StartPending"
    /\ \A i \in 1..(Len(Reported) - 1) :
          /\ Reported[i] # "Stopped"
          /\ Rank(Reported[i + 1]) \in {Rank(Reported[i]), Rank(Reported[i]) + 1}

\* What does hold of the statuses: they never go back, nothing follows
\* Stopped, and StopPending is left out only when the server ended by itself
\* before any Stop or Shutdown was handled, which in this model is when the
\* listener could not be bound.
C11_StatusesNeverGoBack ==
    /\ Len(Reported) > 0 => Reported[1] = "StartPending"
    /\ \A i \in 1..(Len(Reported) - 1) :
          /\ Reported[i] # "Stopped"
          /\ Rank(Reported[i + 1]) >= Rank(Reported[i])
          /\ Rank(Reported[i + 1]) > Rank(Reported[i]) + 1 =>
                /\ Reported[i] = "Running" /\ Reported[i + 1] = "Stopped"
                /\ life.stopCmd = ""
                /\ BindFailed

\* Execute took a Stop or a Shutdown from r.
StopHandled == life.stopCmd \in {"Stop", "Shutdown"}

\* The last state reported.
LastReported == Reported[Len(Reported)]

\* C12: under the service manager every Stop or Shutdown that Execute takes
\* from r while it runs is acknowledged in this order: StopPending is
\* reported, then the context is cancelled, then Execute waits for
\* runHTTPServer to return, and only then Stopped is reported.  Stopped is
\* never reported before StopPending nor before the server returned.
C12_StopIsAcknowledgedInOrder ==
    StopHandled =>
        /\ HasReported("Running") /\ HasReported("StopPending")
        /\ life.exec = "cancel" => (life.ctx = "live" /\ LastReported = "StopPending")
        /\ life.exec = "wait" => (life.ctx = "cancelled" /\ LastReported = "StopPending")
        /\ life.ctx = "cancelled" => life.cause = life.stopCmd
        /\ HasReported("Stopped") =>
              /\ life.ctx = "cancelled"
              /\ life.rhs = "returned"
              /\ life.exec \in {"return", "returned"}
              /\ \E i \in 1..(Len(Reported) - 1) :
                    /\ Reported[i] = "StopPending"
                    /\ Reported[i + 1] = "Stopped"
                    /\ i + 1 = Len(Reported)

C12_Witness ==
    /\ life.stopCmd = "Shutdown"
    /\ Reported = <<"StartPending", "Running", "StopPending", "Stopped">>
    /\ life.result = ""
    /\ life.shutdownCalls = 1

\* Execute takes an Interrogate from r in this step.
InterrogateTaken ==
    /\ life.exec = "loop"
    /\ life.r = <<"Interrogate">>
    /\ life'.r = <<>>

\* C13: under the service manager an Interrogate is answered by sending the
\* current status, the one reported last, on changes, and by nothing else:
\* the state and the accepted commands stay as they are, the context is not
\* cancelled, the server and its requests go on.
C13_InterrogateReportsStatusOnly ==
    [][InterrogateTaken =>
          /\ life.status = life.changes[Len(life.changes)]
          /\ life' = [life EXCEPT !.r = <<>>, !.changes = Append(@, life.status)]
          /\ conn' = conn
          /\ goos' = goos]_vars

C13_Witness ==
    /\ Len(life.changes) = 3
    /\ life.changes[3] = Status("Running", accepts)
    /\ life.changes[2] = life.changes[3]
    /\ life.status = Status("Running", accepts)
    /\ life.controls = 1 /\ life.r = <<>>
    /\ life.ctx = "live" /\ Accepting
    /\ \E c \in Conns : conn[c].cmd = "running"

\* C14: when the listener cannot be bound the failure is fatal, from a
\* console and under the service manager alike: Running is never reported,
\* no request is served and the process ends with a status other than 0.
C14_BindFailureIsFatal ==
    BindFailed =>
        /\ ~HasReported("Running")
        /\ \A c \in Conns : conn[c].pc = "idle"
        /\ life.exit \in {"none", "1"}

\* What does hold: no request is served once the listener could not be
\* bound, and a process started from a console ends with status 1.
C14_StandaloneBindFailureIsFatal ==
    BindFailed =>
        /\ \A c \in Conns : conn[c].pc = "idle"
        /\ life.mode = "standalone" =>
              /\ life.exit \in {"none", "1"}
              /\ life.main = "exited" => life.log = <<"server failed: " \o ErrBind>>
              /\ ~HasReported("Running")

\* The handler of some request has not returned.
SomeInFlight == \E c \in Conns : InFlight(c)

\* C15: after the cancellation, while a request is in flight and the 5
\* seconds of grace are not over, runHTTPServer has not returned, Stopped is
\* not reported and the process has not ended (no handler is cut off).
C15_InFlightRequestsGetTheGracePeriod ==
    (life.ctx = "cancelled" /\ life.grace # "expired") =>
        /\ SomeInFlight => (life.rhs # "returned" /\ ~HasReported("Stopped"))
        /\ \A c \in Conns : conn[c].pc # "aborted"

\* What does hold: srv.Shutdown itself returns only when no handler is left
\* or the 5 seconds are over, and no request is accepted after it was
\* called.
C15_ShutdownItselfWaits ==
    /\ life.sd = "returned" => (~SomeInFlight \/ life.grace = "expired")
    /\ life.shutdownCalls > 0 => ~Accepting

\* The process is over, and under the service manager the last status it
\* reported is Stopped.
Terminated ==
    /\ life.exit # "none"
    /\ life.mode = "service" => LastReported = "Stopped"

\* C16: once the context is cancelled the process ends, under the service
\* manager with Stopped reported, whatever the requests in flight do and
\* whether or not the 5 seconds of grace run out: neither a slow handler nor
\* the timer is needed for it, and no goroutine waits for another for ever.
C16_CancellationLeadsToStopped ==
    (life.ctx = "cancelled") ~> Terminated

\* The process ended after a Stop with the command of a request still
\* running and the 5 seconds not over.
C16_Witness ==
    /\ Terminated
    /\ life.mode = "service" /\ life.cause = "Stop"
    /\ life.grace = "running"
    /\ \E c \in Conns : conn[c].pc = "aborted" /\ conn[c].cmd = "running"

\* The argument list the request of connection c asks for: the flags of its
\* endpoint, then /t and its own delay.
OwnArgs(c) ==
    ExpectedBaseFlags(conn[c].path)
        \o <<"/t", DigitsText(RequestedDigits(conn[c].body))>>

\* C17: two POSTs in flight at the same time are served independently: each
\* runs the platform command exactly once, with the arguments of its own
\* endpoint and delay, and a handler that is about to start its command
\* does start it however long the command of the other one runs (nothing is
\* serialized, deduplicated or blocked, so there is no deadlock).
C17_ConcurrentRequestsAreIndependent ==
    /\ [](\A c \in ConcConns :
            /\ (goos = "windows" /\ conn[c].method = MethodPost
                  /\ conn[c].pc \in {"wait", "done"}) =>
                  conn[c].runs = <<OwnArgs(c)>>
            /\ conn[c].pc \notin {"wait", "done"} => conn[c].runs = <<>>)
    /\ \A c \in ConcConns : (conn[c].pc = "exec") ~> (conn[c].pc # "exec")

\* Two POSTs to /shutdown with different delays, both with their command
\* running.
C17_Witness ==
    /\ conn["c1"].pc = "wait" /\ conn["c2"].pc = "wait"
    /\ conn["c1"].path = "/shutdown" /\ conn["c2"].path = "/shutdown"
    /\ conn["c1"].runs = << <<"/s", "/t", "0">> >>
    /\ conn["c2"].runs = << <<"/s", "/t", "30">> >>

\* What is meant to cancel the context: a signal from the console, a Stop
\* or a Shutdown from the service manager.
Triggers == Signals \cup {"Stop", "Shutdown"}

Cancelled == life.ctx = "cancelled"

\* srv.Shutdown is called at most once and only with the context cancelled,
\* and a cancelled context stays cancelled by what cancelled it first.
OneShutdown ==
    /\ life.shutdownCalls <= 1
    /\ life.shutdownCalls = 1 => Cancelled
    /\ Cancelled <=> life.cause # ""

CancelledOnce ==
    [][Cancelled => (life'.ctx = "cancelled" /\ life'.cause = life.cause)]_vars

\* C18 as it is claimed: the context is cancelled once, by the first of an
\* interrupt, a terminate, a Stop or a Shutdown; srv.Shutdown is called at
\* most once and only after the cancellation; every cancellation is followed
\* by the call; later signals start no second shutdown.
C18_EveryCancellationShutsDownOnce ==
    /\ []OneShutdown
    /\ CancelledOnce
    /\ [](Cancelled => life.cause \in Triggers)
    /\ Cancelled ~> (life.shutdownCalls = 1)

\* C18 as it holds: the same, but where the listener could not be bound
\* there is no server to shut down: the process ends without the call, and
\* under the service manager it is the deferred cancel() of Execute that
\* cancels the context.
C18_CancellationShutsDownOnceIfBound ==
    /\ []OneShutdown
    /\ CancelledOnce
    /\ [](Cancelled => \/ life.cause \in Triggers
                       \/ life.cause = "defer" /\ BindFailed /\ life.mode = "service")
    /\ Cancelled ~> (life.shutdownCalls = 1 \/ BindFailed)

\* An interrupt, then a second signal, and one call of srv.Shutdown.
C18_Witness ==
    /\ life.cause = "interrupt"
    /\ life.signals = 2
    /\ life.shutdownCalls = 1
    /\ life.sd = "returned"
    /\ ~BindFailed

\* The process itself takes a step: main, Execute, runHTTPServer, the
\* goroutine that calls srv.Shutdown, a signal, a change request, the timer.
LifeStep == life' # life

\* C19: the cancellation does not cancel a command that was started.  No
\* step of the process (the cancellation, srv.Shutdown, the return of
\* runHTTPServer, the end of the process) touches a running command or the
\* record of what was run; a running command ends only by exiting, with its
\* own outcome; and once srv.Shutdown was called no new request is taken.
C19_CancellationLeavesCommandsAlone ==
    [][\A c \in Conns :
          /\ conn[c].cmd = "running" =>
                /\ conn'[c].cmd \in {"running", "exited zero", "exited non-zero"}
                /\ conn'[c].runs = conn[c].runs
                /\ LifeStep => conn'[c].cmd = "running"
          /\ LifeStep => (conn'[c].runs = conn[c].runs /\ conn'[c].cmd = conn[c].cmd)
          /\ (life.shutdownCalls > 0 /\ conn[c].pc = "idle") => conn'[c].pc = "idle"]_vars

\* A command started before the interrupt has exited with status 0 after
\* the process ended.
C19_Witness ==
    \E c \in Conns :
        /\ life.cause = "interrupt" /\ life.exit = "0"
        /\ conn[c].pc = "aborted"
        /\ conn[c].runs = << <<"/s", "/t", "30">> >>
        /\ conn[c].cmd = "exited zero"

(***************************************************************************)
(* The earlier handlers (unnamed/part_000): fixed argument lists, no delay.*)
(***************************************************************************)
oldShutdownHandler ==
    Handler(<<"/s", "/t", "0">>,
            "Shutdown command executed. The machine is powering off.")

oldRestartHandler ==
    Handler(<<"/r", "/t", "0">>,
            "Restart command executed. The machine is restarting.")

oldRestartFirmwareHandler ==
    Handler(<<"/r", "/fw", "/t", "0">>,
            "Firmware restart command executed. The machine will reboot into BIOS/UEFI.")

oldMux(path) ==
    IF path = "/shutdown" THEN oldShutdownHandler
    ELSE IF path = "/restart" THEN oldRestartHandler
    ELSE oldRestartFirmwareHandler

\* The earlier handlePowerAction(w, r, args, successMessage) as a function
\* of the request, the platform and the error of cmd.Run() ("" for nil):
\* what it writes and what it runs.
oldHandlePowerAction(method, os, args, successMessage, runErr) ==
    IF method # MethodPost
    THEN [written |-> <<httpError("method not allowed", StatusMethodNotAllowed)>>,
          runs |-> <<>>]
    ELSE IF os # "windows"
    THEN [written |-> <<writeJSON(StatusNotImplemented,
                          "Power control commands are available only on Windows hosts.")>>,
          runs |-> <<>>]
    ELSE IF runErr # ""
    THEN [written |-> <<writeJSON(StatusInternalServerError,
                          "Failed to execute power command.")>>,
          runs |-> <<args>>]
    ELSE [written |-> <<writeJSON(StatusOK, successMessage)>>,
          runs |-> <<args>>]

\* What the earlier handlers do with the request of connection c when
\* cmd.Run() ends as it did for c.
OldAnswer(c) ==
    LET h == oldMux(conn[c].path)
    IN  oldHandlePowerAction(conn[c].method, goos, h.baseArgs, h.successMessage,
                             conn[c].cmdErr)

\* The request has no body.
NoBody(c) == conn[c].body \in {NilBody, EmptyBody}

\* C20: for a request to an action endpoint that is not a POST, or that
\* comes on a platform other than windows, or that is a POST without a body
\* on windows, the handlers of main.go answer with the status of the earlier
\* handlers and run the argument list they run: shutdown /s /t 0 for
\* /shutdown, /r /t 0 for /restart, /r /fw /t 0 for /restart-bios, and
\* nothing where the earlier handlers run nothing.
C20_SameAsFixedArgumentHandlers ==
    \A c \in Conns :
        (Answered(c) /\ ActionRequest(c)
           /\ (conn[c].method # MethodPost \/ goos # "windows" \/ NoBody(c))) =>
            /\ Len(conn[c].written) = 1
            /\ Len(OldAnswer(c).written) = 1
            /\ conn[c].written[1].status = OldAnswer(c).written[1].status
            /\ conn[c].runs = OldAnswer(c).runs
            /\ conn[c].runs # <<>> =>
                  conn[c].runs[1] = ExpectedBaseFlags(conn[c].path) \o <<"/t", "0">>

C20_Witness ==
    \E c \in Conns :
        /\ Answered(c) /\ goos = "windows"
        /\ conn[c].method = MethodPost /\ conn[c].path = "/restart-bios"
        /\ conn[c].body = EmptyBody
        /\ conn[c].runs = << <<"/r", "/fw", "/t", "0">> >>
        /\ conn[c].written[1].status = 200
        /\ OldAnswer(c).written[1].status = 200

(***************************************************************************)
(* The request pipeline as a whole.                                        *)
(***************************************************************************)
\* The class of the delay a body carries: negative, malformed (the decoder
\* fails on it), valid otherwise.  No body is the delay 0, and a body with
\* bytes after its JSON value counts by the value the decoder reads.
DelayClass(b) ==
    IF b \in NegativeBodies THEN "negative"
    ELSE IF b \in MalformedBodies THEN "malformed"
    ELSE "valid"

\* The status by the order method, platform, delay, execution; outcome is
\* how the command ended.
ExpectedStatus(method, os, class, outcome) ==
    IF method # MethodPost THEN 405
    ELSE IF os # "windows" THEN 501
    ELSE IF class # "valid" THEN 400
    ELSE IF outcome = "exited zero" THEN 200
    ELSE 500

\* C21: the gates of handlePowerAction come in the order method, platform,
\* delay, execution, and the status of the one response is a function of
\* method, platform, class of the delay and outcome of the command: a
\* request that is not a POST is answered 405 on every platform, a POST on
\* a platform other than windows 501 whatever its delay, and 200 or 500 is
\* answered only to a POST on windows with a valid delay.  A gate that
\* answers keeps the later ones from being looked at.
C21_GatePrecedence ==
    \A c \in Conns :
        (Answered(c) /\ ActionRequest(c)) =>
            LET r == conn[c]
                status == r.written[1].status
            IN  /\ Len(r.written) = 1
                /\ status = ExpectedStatus(r.method, goos, DelayClass(r.body), r.cmd)
                /\ status \in {405, 501} => Untouched(c)
                /\ status = 400 => (r.parsed /\ NotExecuted(c))
                /\ status \in {200, 500} =>
                      /\ r.method = MethodPost /\ goos = "windows"
                      /\ DelayClass(r.body) = "valid"
                      /\ r.cmd \in {"exited zero", "exited non-zero", "spawn failed"}

\* A GET with a negative delay on linux is answered 405, not 501 or 400.
C21_Witness ==
    \E c \in Conns :
        /\ Answered(c) /\ goos = "linux"
        /\ conn[c].method = "GET" /\ conn[c].path = "/restart"
        /\ conn[c].body \in NegativeBodies
        /\ conn[c].written[1].status = 405

\* C22: a request to an action endpoint gets exactly one response, written
\* when the handler is through and not before, and the platform command is
\* run at most once for it.  The command is run if and only if the request
\* is a POST, the platform is windows and the delay parsed without error as
\* zero or more; the response is 200 if and only if the command was run and
\* exited with status 0.
C22_OneResponseAtMostOneCommand ==
    \A c \in Conns :
        ActionRequest(c) =>
            LET r == conn[c]
                parsedOk == r.parsed /\ r.err = "" /\ ~IsNeg64(r.delaySeconds)
            IN  /\ Len(r.written) = (IF Answered(c) THEN 1 ELSE 0)
                /\ Len(r.runs) <= 1
                /\ r.runs # <<>> =>
                      /\ r.method = MethodPost /\ goos = "windows" /\ parsedOk
                      /\ DelayClass(r.body) = "valid"
                /\ Answered(c) =>
                      /\ r.runs # <<>> <=>
                            (r.method = MethodPost /\ goos = "windows" /\ parsedOk)
                      /\ r.runs # <<>> <=>
                            (r.method = MethodPost /\ goos = "windows"
                               /\ DelayClass(r.body) = "valid")
                      /\ r.written[1].status = 200 <=>
                            (Len(r.runs) = 1 /\ r.cmd = "exited zero")

\* A POST on windows whose command ran once and exited non-zero: one
\* response, and it is not 200.
C22_Witness ==
    \E c \in Conns :
        /\ Answered(c) /\ goos = "windows"
        /\ conn[c].method = MethodPost /\ conn[c].path = "/shutdown"
        /\ conn[c].body = DelayBody(JNumber(FALSE, Digits59, FALSE))
        /\ conn[c].runs = << <<"/s", "/t", "59">> >>
        /\ conn[c].cmd = "exited non-zero"
        /\ Len(conn[c].written) = 1
        /\ conn[c].written[1].status = 500

====
